---- MODULE Spec2Model ----
(***************************************************************************)
(* Model of advanced-vector/vector.h: RawMemory<T> (an owner of one raw    *)
(* block of memory) and Vector<T> built on it.                             *)
(*                                                                         *)
(* The heap is a finite set of block addresses.  A block records whether   *)
(* it is currently allocated and, slot by slot, whether the slot is raw    *)
(* memory, holds a constructed element (its value) or holds a moved-from   *)
(* element.  Every member function is one action: the single-threaded code *)
(* runs each call to its return or to the point where an exception leaves  *)
(* it, and the stack unwinding (destructors of the locals) is part of the  *)
(* action.  The exception that a call raises is an input of the action.    *)
(*                                                                         *)
(* Spec explores two vectors and every member function within small        *)
(* limits; there a call may raise std::bad_alloc and the exceptions of T's *)
(* constructors and copy operations.  SpecOk is the same without any       *)
(* exception.  SpecSolo explores one vector within wider limits and with   *)
(* every exception, those of T's moves included.  SpecWide explores one    *)
(* vector within wider limits and without any exception, SpecPush a        *)
(* vector that is only ever pushed to.                                     *)
(***************************************************************************)
EXTENDS Integers, FiniteSets

\* ------------------------------------------------------------------ bounds
\* one vector alone
MaxCap == 4
MaxSize == 3
\* one vector alone, no exception
WideMaxCap == 6
WideMaxSize == 4
\* one vector that is only pushed to
PushMaxCap == 8
PushMaxSize == 5
\* two vectors together
PairMaxCap == 2
PairMaxSize == 2
\* the addresses of the heap: one block per vector and one for the block a
\* call builds before it releases the old one
NBlocks == 3

\* --------------------------------------------------------------- constants
NULL == 0
RAW == -2
MOVED == -1

Vecs == {"a", "b"}
Blocks == 1..NBlocks
\* The values of T.  The code never looks at a value, it only places it, so
\* two values tell every misplacement apart; T{} is one of them.
DefaultValue == 0
Values == {DefaultValue, 1}

VARIABLES heap, vec, nothrow_move, last
vars == <<heap, vec, nothrow_move, last>>

\* ------------------------------------------------------------ the payload T
is_nothrow_move_constructible_v == nothrow_move
is_copy_constructible_v == TRUE

\* A policy that moves whatever T is.
AlwaysRelocate == TRUE

\* The transfer policy of Reserve, Emplace and Erase.
Relocate == is_nothrow_move_constructible_v \/ ~is_copy_constructible_v

\* ----------------------------------------------------------------- failures
\* The exception one call raises: none, std::bad_alloc from operator new,
\* or an exception of T: from the construction of the new element out of
\* the arguments ("arg"), from a value-initialisation ("ctor"), from the
\* copy/move construction of the element at source index i ("elem"), or
\* from the copy/move assignment of the element at source index i
\* ("assign").
NoFail == [k |-> "none", i |-> 0]
BadAlloc == [k |-> "alloc", i |-> 0]
Throw(kind, idx) == [k |-> kind, i |-> idx]
ThrowsIn(f, kind, lo, hi) == f.k = kind /\ lo <= f.i /\ f.i < hi

\* --------------------------------------------------------------------- heap
RawSlots(n) == [j \in 0..(n - 1) |-> RAW]
FreeBlock == [status |-> "free", slots |-> RawSlots(0)]

Constructed(h, b) == {j \in DOMAIN h[b].slots : h[b].slots[j] # RAW}

Allocate(h, n) ==
    IF n # 0
    THEN CHOOSE b \in Blocks : h[b].status = "free"
                               /\ \A c \in Blocks : h[c].status = "free" => b <= c
    ELSE NULL

AfterAllocate(h, n) ==
    IF n # 0
    THEN [h EXCEPT ![Allocate(h, n)] = [status |-> "allocated", slots |-> RawSlots(n)]]
    ELSE h

\* operator delete: releasing a block that is not allocated corrupts the
\* heap; the elements still constructed in a released block stay on record
\* until the end of the call.
Deallocate(h, buf) ==
    IF buf = NULL THEN h
    ELSE IF h[buf].status # "allocated"
    THEN [h EXCEPT ![buf].status = "corrupt"]
    ELSE [h EXCEPT ![buf].status = "free"]

\* ---------------------------------------------------------------- RawMemory
EmptyRawMemory == [buffer_ |-> NULL, capacity_ |-> 0]
RawMemoryCtor(h, capacity) == [buffer_ |-> Allocate(h, capacity), capacity_ |-> capacity]

\* ------------------------------------------------- <memory> and <algorithm>
construct_at(h, b, j, x) == [h EXCEPT ![b].slots[j] = x]

\* std::destroy_n that leaves the last of the n elements constructed.
destroy_n_short(h, b, first, n) ==
    IF n = 0 THEN h
    ELSE [h EXCEPT ![b].slots = [j \in DOMAIN h[b].slots |->
             IF first <= j /\ j < first + n - 1 THEN RAW ELSE h[b].slots[j]]]

destroy_n(h, b, first, n) ==
    IF n = 0 THEN h
    ELSE [h EXCEPT ![b].slots = [j \in DOMAIN h[b].slots |->
             IF first <= j /\ j < first + n THEN RAW ELSE h[b].slots[j]]]

uninitialized_value_construct_n(h, b, first, n) ==
    IF n = 0 THEN h
    ELSE [h EXCEPT ![b].slots = [j \in DOMAIN h[b].slots |->
             IF first <= j /\ j < first + n THEN DefaultValue ELSE h[b].slots[j]]]

\* n elements of block from, starting at first, into the raw slots of block
\* to, starting at dfirst
uninitialized_copy_n(h, from, first, n, to, dfirst) ==
    IF n = 0 THEN h
    ELSE [h EXCEPT ![to].slots = [j \in DOMAIN h[to].slots |->
             IF dfirst <= j /\ j < dfirst + n
             THEN h[from].slots[first + (j - dfirst)] ELSE h[to].slots[j]]]

\* the sources of a move are left moved-from
MovedFrom(h, from, first, n) ==
    IF n = 0 THEN h
    ELSE [h EXCEPT ![from].slots = [j \in DOMAIN h[from].slots |->
             IF first <= j /\ j < first + n THEN MOVED ELSE h[from].slots[j]]]

uninitialized_move_n(h, from, first, n, to, dfirst) ==
    MovedFrom(uninitialized_copy_n(h, from, first, n, to, dfirst), from, first, n)

\* std::copy_n by assignment onto constructed elements, both from offset 0
copy_n(h, from, n, to) == uninitialized_copy_n(h, from, 0, n, to, 0)

\* std::move in place of std::move_backward: the ranges overlap, every
\* destination receives the first element.
move_forward(h, b, lo, hi) ==
    IF hi <= lo THEN h
    ELSE [h EXCEPT ![b].slots = [j \in DOMAIN h[b].slots |->
             IF lo < j /\ j <= hi THEN h[b].slots[lo]
             ELSE IF j = lo THEN MOVED ELSE h[b].slots[j]]]

\* std::move_backward(begin + lo, begin + hi, begin + hi + 1) inside block b
move_backward(h, b, lo, hi) ==
    IF hi <= lo THEN h
    ELSE [h EXCEPT ![b].slots = [j \in DOMAIN h[b].slots |->
             IF lo < j /\ j <= hi THEN h[b].slots[j - 1]
             ELSE IF j = lo THEN MOVED ELSE h[b].slots[j]]]

\* std::move(begin + lo, begin + hi, begin + lo - 1) inside block b
std_move(h, b, lo, hi) ==
    IF hi <= lo THEN h
    ELSE [h EXCEPT ![b].slots = [j \in DOMAIN h[b].slots |->
             IF lo - 1 <= j /\ j < hi - 1 THEN h[b].slots[j + 1]
             ELSE IF j = hi - 1 THEN MOVED ELSE h[b].slots[j]]]

\* std::copy that stops one element early: (begin + lo, begin + hi - 1).
std_copy_short(h, b, lo, hi) ==
    IF hi <= lo THEN h
    ELSE [h EXCEPT ![b].slots = [j \in DOMAIN h[b].slots |->
             IF lo - 1 <= j /\ j < hi - 2 THEN h[b].slots[j + 1] ELSE h[b].slots[j]]]

\* std::copy(begin + lo, begin + hi, begin + lo - 1) inside block b
std_copy(h, b, lo, hi) ==
    IF hi <= lo THEN h
    ELSE [h EXCEPT ![b].slots = [j \in DOMAIN h[b].slots |->
             IF lo - 1 <= j /\ j < hi - 1 THEN h[b].slots[j + 1] ELSE h[b].slots[j]]]

\* ------------------------------------------------------------------- Vector
\* A vector that is not constructed (before its constructor, after its
\* destructor) owns nothing.
Dead == [alive |-> FALSE, buffer_ |-> NULL, capacity_ |-> 0, size_ |-> 0]

\* What a call leaves: the heap, the vector, and how the call ended
\* ("ok", "bad_alloc", "throw").
Ret(h, d, res) == [h |-> h, d |-> d, res |-> res]
\* The same for a call on two vectors.
Ret2(h, d, o, res) == [h |-> h, d |-> d, o |-> o, res |-> res]

VectorDefault == [alive |-> TRUE, buffer_ |-> NULL, capacity_ |-> 0, size_ |-> 0]

\* explicit Vector(size_t size)
VectorN(h, size, f) ==
    IF size # 0 /\ f.k = "alloc" THEN Ret(h, Dead, "bad_alloc")
    ELSE LET data_ == RawMemoryCtor(h, size)
             h1 == AfterAllocate(h, size)
         IN  IF ThrowsIn(f, "ctor", 0, size)
             THEN Ret(Deallocate(h1, data_.buffer_), Dead, "throw")
             ELSE Ret(uninitialized_value_construct_n(h1, data_.buffer_, 0, size),
                      [alive |-> TRUE, buffer_ |-> data_.buffer_,
                       capacity_ |-> data_.capacity_, size_ |-> size],
                      "ok")

\* A copy constructor that asks for the capacity of the source.
VectorCopyKeepsCapacity(h, other, f) ==
    IF other.capacity_ # 0 /\ f.k = "alloc" THEN Ret(h, Dead, "bad_alloc")
    ELSE LET data_ == RawMemoryCtor(h, other.capacity_)
             h1 == AfterAllocate(h, other.capacity_)
         IN  IF ThrowsIn(f, "elem", 0, other.size_)
             THEN Ret(Deallocate(h1, data_.buffer_), Dead, "throw")
             ELSE Ret(uninitialized_copy_n(h1, other.buffer_, 0, other.size_, data_.buffer_, 0),
                      [alive |-> TRUE, buffer_ |-> data_.buffer_,
                       capacity_ |-> data_.capacity_, size_ |-> other.size_],
                      "ok")

\* Vector(const Vector &other)
VectorCopy(h, other, f) ==
    IF other.size_ # 0 /\ f.k = "alloc" THEN Ret(h, Dead, "bad_alloc")
    ELSE LET data_ == RawMemoryCtor(h, other.size_)
             h1 == AfterAllocate(h, other.size_)
         IN  IF ThrowsIn(f, "elem", 0, other.size_)
             THEN Ret(Deallocate(h1, data_.buffer_), Dead, "throw")
             ELSE Ret(uninitialized_copy_n(h1, other.buffer_, 0, other.size_, data_.buffer_, 0),
                      [alive |-> TRUE, buffer_ |-> data_.buffer_,
                       capacity_ |-> data_.capacity_, size_ |-> other.size_],
                      "ok")

\* A move constructor that takes the members and leaves them in the source.
VectorMoveKeepsSource(h, other) ==
    Ret2(h,
         [alive |-> TRUE, buffer_ |-> other.buffer_,
          capacity_ |-> other.capacity_, size_ |-> other.size_],
         other,
         "ok")

\* Vector(Vector &&other) noexcept
VectorMove(h, other) ==
    Ret2(h,
         [alive |-> TRUE, buffer_ |-> other.buffer_,
          capacity_ |-> other.capacity_, size_ |-> other.size_],
         [other EXCEPT !.buffer_ = EmptyRawMemory.buffer_,
                       !.capacity_ = EmptyRawMemory.capacity_,
                       !.size_ = 0],
         "ok")

\* A destructor that destroys the elements and keeps the block.
VectorDtorKeepsBlock(h, d) == destroy_n(h, d.buffer_, 0, d.size_)

\* ~Vector() followed by ~RawMemory()
VectorDtor(h, d) == Deallocate(destroy_n(h, d.buffer_, 0, d.size_), d.buffer_)

\* A Swap that exchanges data_ and forgets size_.
SwapDataOnly(h, d, other) ==
    Ret2(h,
         [d EXCEPT !.buffer_ = other.buffer_, !.capacity_ = other.capacity_],
         [other EXCEPT !.buffer_ = d.buffer_, !.capacity_ = d.capacity_],
         "ok")

\* void Swap(Vector &other) noexcept
Swap(h, d, other) ==
    Ret2(h,
         [d EXCEPT !.buffer_ = other.buffer_, !.capacity_ = other.capacity_,
                   !.size_ = other.size_],
         [other EXCEPT !.buffer_ = d.buffer_, !.capacity_ = d.capacity_,
                       !.size_ = d.size_],
         "ok")

\* Vector &operator=(Vector &&rhs) noexcept, this != &rhs
MoveAssign(h, d, rhs) == Swap(h, d, rhs)

\* A rebuild that destroys its own elements before it copies the source.
CopyAndSwapClearFirst(h, d, rhs, f) ==
    LET h0 == destroy_n(h, d.buffer_, 0, d.size_)
        d0 == [d EXCEPT !.size_ = 0]
        rhs_copy == VectorCopy(h0, rhs, f)
    IN  IF rhs_copy.res # "ok" THEN Ret2(rhs_copy.h, d0, rhs, rhs_copy.res)
        ELSE LET s == Swap(rhs_copy.h, d0, rhs_copy.d)
             IN  Ret2(VectorDtor(s.h, s.o), s.d, rhs, "ok")

\* The branch rhs.size_ > data_.Capacity() of the copy assignment:
\* Vector rhs_copy(rhs); Swap(rhs_copy); and the destructor of rhs_copy.
CopyAndSwap(h, d, rhs, f) ==
    LET rhs_copy == VectorCopy(h, rhs, f)
    IN  IF rhs_copy.res # "ok" THEN Ret2(rhs_copy.h, d, rhs, rhs_copy.res)
        ELSE LET s == Swap(rhs_copy.h, d, rhs_copy.d)
             IN  Ret2(VectorDtor(s.h, s.o), s.d, rhs, "ok")

\* A reuse of the storage that forgets to destroy the excess elements.
AssignInPlaceKeepsTail(h, d, rhs, f) ==
    IF rhs.size_ < d.size_
    THEN IF ThrowsIn(f, "assign", 0, rhs.size_)
         THEN Ret2(copy_n(h, rhs.buffer_, f.i, d.buffer_), d, rhs, "throw")
         ELSE Ret2(copy_n(h, rhs.buffer_, rhs.size_, d.buffer_),
                   [d EXCEPT !.size_ = rhs.size_], rhs, "ok")
    ELSE IF ThrowsIn(f, "assign", 0, d.size_)
         THEN Ret2(copy_n(h, rhs.buffer_, f.i, d.buffer_), d, rhs, "throw")
         ELSE IF ThrowsIn(f, "elem", d.size_, rhs.size_)
         THEN Ret2(copy_n(h, rhs.buffer_, d.size_, d.buffer_), d, rhs, "throw")
         ELSE Ret2(uninitialized_copy_n(copy_n(h, rhs.buffer_, d.size_, d.buffer_),
                                        rhs.buffer_, d.size_, rhs.size_ - d.size_,
                                        d.buffer_, d.size_),
                   [d EXCEPT !.size_ = rhs.size_], rhs, "ok")

\* The other branch of the copy assignment: the storage is reused.
AssignInPlace(h, d, rhs, f) ==
    IF rhs.size_ < d.size_
    THEN IF ThrowsIn(f, "assign", 0, rhs.size_)
         THEN Ret2(copy_n(h, rhs.buffer_, f.i, d.buffer_), d, rhs, "throw")
         ELSE Ret2(destroy_n(copy_n(h, rhs.buffer_, rhs.size_, d.buffer_),
                             d.buffer_, rhs.size_, d.size_ - rhs.size_),
                   [d EXCEPT !.size_ = rhs.size_], rhs, "ok")
    ELSE IF ThrowsIn(f, "assign", 0, d.size_)
         THEN Ret2(copy_n(h, rhs.buffer_, f.i, d.buffer_), d, rhs, "throw")
         ELSE IF ThrowsIn(f, "elem", d.size_, rhs.size_)
         THEN Ret2(copy_n(h, rhs.buffer_, d.size_, d.buffer_), d, rhs, "throw")
         ELSE Ret2(uninitialized_copy_n(copy_n(h, rhs.buffer_, d.size_, d.buffer_),
                                        rhs.buffer_, d.size_, rhs.size_ - d.size_,
                                        d.buffer_, d.size_),
                   [d EXCEPT !.size_ = rhs.size_], rhs, "ok")

\* Vector &operator=(const Vector &rhs), this != &rhs
CopyAssign(h, d, rhs, f) ==
    IF rhs.size_ > d.capacity_
    THEN CopyAndSwap(h, d, rhs, f)
    ELSE AssignInPlace(h, d, rhs, f)

\* Reserve that returns early only below the capacity: Reserve(Capacity())
\* moves the elements to a new block.
ReserveReallocatesOnEqual(h, d, new_capacity, f) ==
    IF new_capacity < d.capacity_ THEN Ret(h, d, "ok")
    ELSE IF f.k = "alloc" THEN Ret(h, d, "bad_alloc")
    ELSE LET new_data == RawMemoryCtor(h, new_capacity)
             h1 == AfterAllocate(h, new_capacity)
             adopted == [d EXCEPT !.buffer_ = new_data.buffer_,
                                  !.capacity_ = new_data.capacity_]
         IN  IF ThrowsIn(f, "elem", 0, d.size_)
             THEN IF Relocate
                  THEN Ret(Deallocate(MovedFrom(h1, d.buffer_, 0, f.i), new_data.buffer_),
                           d, "throw")
                  ELSE Ret(Deallocate(h1, new_data.buffer_), d, "throw")
             ELSE LET h2 == IF Relocate
                            THEN uninitialized_move_n(h1, d.buffer_, 0, d.size_,
                                                      new_data.buffer_, 0)
                            ELSE uninitialized_copy_n(h1, d.buffer_, 0, d.size_,
                                                      new_data.buffer_, 0)
                      h3 == destroy_n(h2, d.buffer_, 0, d.size_)
                  IN  Ret(Deallocate(h3, d.buffer_), adopted, "ok")

\* void Reserve(size_t new_capacity)
Reserve(h, d, new_capacity, f) ==
    IF new_capacity <= d.capacity_ THEN Ret(h, d, "ok")
    ELSE IF f.k = "alloc" THEN Ret(h, d, "bad_alloc")
    ELSE LET new_data == RawMemoryCtor(h, new_capacity)
             h1 == AfterAllocate(h, new_capacity)
             adopted == [d EXCEPT !.buffer_ = new_data.buffer_,
                                  !.capacity_ = new_data.capacity_]
         IN  IF ThrowsIn(f, "elem", 0, d.size_)
             THEN IF Relocate
                  THEN Ret(Deallocate(MovedFrom(h1, d.buffer_, 0, f.i), new_data.buffer_),
                           d, "throw")
                  ELSE Ret(Deallocate(h1, new_data.buffer_), d, "throw")
             ELSE LET h2 == IF Relocate
                            THEN uninitialized_move_n(h1, d.buffer_, 0, d.size_,
                                                      new_data.buffer_, 0)
                            ELSE uninitialized_copy_n(h1, d.buffer_, 0, d.size_,
                                                      new_data.buffer_, 0)
                      h3 == destroy_n(h2, d.buffer_, 0, d.size_)
                  IN  Ret(Deallocate(h3, d.buffer_), adopted, "ok")

\* Resize that shrinks without std::destroy_n.
ResizeKeepsTail(h, d, new_size, f) ==
    IF new_size < d.size_
    THEN Ret(h, [d EXCEPT !.size_ = new_size], "ok")
    ELSE IF new_size > d.size_
    THEN LET r == Reserve(h, d, new_size, f)
         IN  IF r.res # "ok" THEN r
             ELSE IF ThrowsIn(f, "ctor", d.size_, new_size)
             THEN Ret(r.h, r.d, "throw")
             ELSE Ret(uninitialized_value_construct_n(r.h, r.d.buffer_, d.size_,
                                                      new_size - d.size_),
                      [r.d EXCEPT !.size_ = new_size], "ok")
    ELSE Ret(h, d, "ok")

\* void Resize(size_t new_size)
Resize(h, d, new_size, f) ==
    IF new_size < d.size_
    THEN Ret(destroy_n(h, d.buffer_, new_size, d.size_ - new_size),
             [d EXCEPT !.size_ = new_size], "ok")
    ELSE IF new_size > d.size_
    THEN LET r == Reserve(h, d, new_size, f)
         IN  IF r.res # "ok" THEN r
             ELSE IF ThrowsIn(f, "ctor", d.size_, new_size)
             THEN Ret(r.h, r.d, "throw")
             ELSE Ret(uninitialized_value_construct_n(r.h, r.d.buffer_, d.size_,
                                                      new_size - d.size_),
                      [r.d EXCEPT !.size_ = new_size], "ok")
    ELSE Ret(h, d, "ok")

\* PopBack that forgets std::destroy_at.
PopBackKeepsElement(h, d) == Ret(h, [d EXCEPT !.size_ = @ - 1], "ok")

\* void PopBack() noexcept
PopBack(h, d) ==
    Ret(destroy_n(h, d.buffer_, d.size_ - 1, 1), [d EXCEPT !.size_ = @ - 1], "ok")

\* The arguments of Emplace: a value of their own, or a reference to the
\* element at index x of the vector itself (Insert(pos, v[x])).
NoArg == [ref |-> FALSE, x |-> 0]
ArgValue(h, d, arg) == IF arg.ref THEN h[d.buffer_].slots[arg.x] ELSE arg.x

\* The capacity the reallocating branch of Emplace asks for.
GrownCapacityPlusOne(capacity) == capacity + 1
GrownCapacity(capacity) == IF capacity = 0 THEN 1 ELSE capacity * 2

\* Emplace that shifts the elements before it reads its argument: an
\* argument that refers to an element of the vector is read after that
\* element has been moved.
EmplaceShiftsFirst(h, d, index, arg, f) ==
    IF d.size_ < d.capacity_
    THEN IF index = d.size_
         THEN IF f.k = "arg" THEN Ret(h, d, "throw")
              ELSE Ret(construct_at(h, d.buffer_, d.size_, ArgValue(h, d, arg)),
                       [d EXCEPT !.size_ = @ + 1], "ok")
         ELSE IF f.k = "arg" THEN Ret(h, d, "throw")
              ELSE IF ThrowsIn(f, "elem", d.size_ - 1, d.size_) THEN Ret(h, d, "throw")
              ELSE LET h1 == construct_at(construct_at(h, d.buffer_, d.size_,
                                                       h[d.buffer_].slots[d.size_ - 1]),
                                          d.buffer_, d.size_ - 1, MOVED)
                   IN  IF ThrowsIn(f, "assign", index, d.size_ - 1)
                       THEN Ret(move_backward(h1, d.buffer_, f.i + 1, d.size_ - 1),
                                d, "throw")
                       ELSE LET h2 == move_backward(h1, d.buffer_, index, d.size_ - 1)
                            IN  IF f.k = "tmp" THEN Ret(h2, d, "throw")
                                ELSE Ret(construct_at(h2, d.buffer_, index,
                                                      ArgValue(h2, d, arg)),
                                         [d EXCEPT !.size_ = @ + 1], "ok")
    ELSE IF f.k = "alloc" THEN Ret(h, d, "bad_alloc")
    ELSE LET new_data == RawMemoryCtor(h, GrownCapacity(d.capacity_))
             h1 == AfterAllocate(h, GrownCapacity(d.capacity_))
         IN  IF f.k = "arg" THEN Ret(Deallocate(h1, new_data.buffer_), d, "throw")
             ELSE LET h2 == construct_at(h1, new_data.buffer_, index, ArgValue(h1, d, arg))
                  IN  IF ThrowsIn(f, "elem", 0, index)
                      THEN Ret(Deallocate(IF Relocate
                                          THEN MovedFrom(h2, d.buffer_, 0, f.i) ELSE h2,
                                          new_data.buffer_),
                               d, "throw")
                      ELSE LET h3 == IF Relocate
                                     THEN uninitialized_move_n(h2, d.buffer_, 0, index,
                                                               new_data.buffer_, 0)
                                     ELSE uninitialized_copy_n(h2, d.buffer_, 0, index,
                                                               new_data.buffer_, 0)
                           IN  IF ThrowsIn(f, "elem", index, d.size_)
                               THEN Ret(Deallocate(IF Relocate
                                                   THEN MovedFrom(h3, d.buffer_, index,
                                                                  f.i - index)
                                                   ELSE h3,
                                                   new_data.buffer_),
                                        d, "throw")
                               ELSE LET h4 == IF Relocate
                                              THEN uninitialized_move_n(
                                                       h3, d.buffer_, index, d.size_ - index,
                                                       new_data.buffer_, index + 1)
                                              ELSE uninitialized_copy_n(
                                                       h3, d.buffer_, index, d.size_ - index,
                                                       new_data.buffer_, index + 1)
                                        h5 == destroy_n(h4, d.buffer_, 0, d.size_)
                                    IN  Ret(Deallocate(h5, d.buffer_),
                                            [d EXCEPT !.buffer_ = new_data.buffer_,
                                                      !.capacity_ = new_data.capacity_,
                                                      !.size_ = @ + 1],
                                            "ok")

\* iterator Emplace(const_iterator pos, Args &&...args), index = pos - cbegin()
Emplace(h, d, index, arg, f) ==
    IF d.size_ < d.capacity_
    THEN IF index = d.size_
         THEN IF f.k = "arg" THEN Ret(h, d, "throw")
              ELSE Ret(construct_at(h, d.buffer_, d.size_, ArgValue(h, d, arg)),
                       [d EXCEPT !.size_ = @ + 1], "ok")
         ELSE IF f.k = "arg" THEN Ret(h, d, "throw")
              ELSE IF ThrowsIn(f, "elem", d.size_ - 1, d.size_) THEN Ret(h, d, "throw")
              ELSE LET tmp_copy == ArgValue(h, d, arg)
                       h1 == construct_at(construct_at(h, d.buffer_, d.size_,
                                                       h[d.buffer_].slots[d.size_ - 1]),
                                          d.buffer_, d.size_ - 1, MOVED)
                   IN  IF ThrowsIn(f, "assign", index, d.size_ - 1)
                       THEN Ret(move_backward(h1, d.buffer_, f.i + 1, d.size_ - 1),
                                d, "throw")
                       ELSE LET h2 == move_backward(h1, d.buffer_, index, d.size_ - 1)
                            IN  IF f.k = "tmp" THEN Ret(h2, d, "throw")
                                ELSE Ret(construct_at(h2, d.buffer_, index, tmp_copy),
                                         [d EXCEPT !.size_ = @ + 1], "ok")
    ELSE IF f.k = "alloc" THEN Ret(h, d, "bad_alloc")
    ELSE LET new_data == RawMemoryCtor(h, GrownCapacity(d.capacity_))
             h1 == AfterAllocate(h, GrownCapacity(d.capacity_))
         IN  IF f.k = "arg" THEN Ret(Deallocate(h1, new_data.buffer_), d, "throw")
             ELSE LET h2 == construct_at(h1, new_data.buffer_, index, ArgValue(h1, d, arg))
                  IN  IF ThrowsIn(f, "elem", 0, index)
                      THEN Ret(Deallocate(IF Relocate
                                          THEN MovedFrom(h2, d.buffer_, 0, f.i) ELSE h2,
                                          new_data.buffer_),
                               d, "throw")
                      ELSE LET h3 == IF Relocate
                                     THEN uninitialized_move_n(h2, d.buffer_, 0, index,
                                                               new_data.buffer_, 0)
                                     ELSE uninitialized_copy_n(h2, d.buffer_, 0, index,
                                                               new_data.buffer_, 0)
                           IN  IF ThrowsIn(f, "elem", index, d.size_)
                               THEN Ret(Deallocate(IF Relocate
                                                   THEN MovedFrom(h3, d.buffer_, index,
                                                                  f.i - index)
                                                   ELSE h3,
                                                   new_data.buffer_),
                                        d, "throw")
                               ELSE LET h4 == IF Relocate
                                              THEN uninitialized_move_n(
                                                       h3, d.buffer_, index, d.size_ - index,
                                                       new_data.buffer_, index + 1)
                                              ELSE uninitialized_copy_n(
                                                       h3, d.buffer_, index, d.size_ - index,
                                                       new_data.buffer_, index + 1)
                                        h5 == destroy_n(h4, d.buffer_, 0, d.size_)
                                    IN  Ret(Deallocate(h5, d.buffer_),
                                            [d EXCEPT !.buffer_ = new_data.buffer_,
                                                      !.capacity_ = new_data.capacity_,
                                                      !.size_ = @ + 1],
                                            "ok")

\* Erase that destroys the last element without shifting the ones after pos.
EraseDropsLast(h, d, index, f) ==
    IF ThrowsIn(f, "assign", index + 1, d.size_) THEN Ret(h, d, "throw")
    ELSE Ret(destroy_n(h, d.buffer_, d.size_ - 1, 1), [d EXCEPT !.size_ = @ - 1], "ok")

\* iterator Erase(const_iterator pos), index = pos - cbegin().  The moves of
\* a nothrow-movable T do not raise, in construction or in assignment; for
\* any other T the function is taken as noexcept(false).
Erase(h, d, index, f) ==
    IF ThrowsIn(f, "assign", index + 1, d.size_)
    THEN Ret(IF Relocate THEN std_move(h, d.buffer_, index + 1, f.i)
                         ELSE std_copy(h, d.buffer_, index + 1, f.i),
             d, "throw")
    ELSE LET h1 == IF Relocate THEN std_move(h, d.buffer_, index + 1, d.size_)
                               ELSE std_copy(h, d.buffer_, index + 1, d.size_)
         IN  Ret(destroy_n(h1, d.buffer_, d.size_ - 1, 1),
                 [d EXCEPT !.size_ = @ - 1], "ok")

\* --------------------------------------------- which exceptions a call can see
\* T's copy operations and value-initialisation may throw; its move
\* operations may throw unless T is nothrow-movable.
MoveThrows == ~is_nothrow_move_constructible_v
TransferThrows == IF Relocate THEN MoveThrows ELSE TRUE

VectorNFails(size) ==
    {NoFail} \cup (IF size # 0 THEN {BadAlloc} ELSE {})
             \cup {Throw("ctor", i) : i \in 0..(size - 1)}

VectorCopyFails(other) ==
    {NoFail} \cup (IF other.size_ # 0 THEN {BadAlloc} ELSE {})
             \cup {Throw("elem", i) : i \in 0..(other.size_ - 1)}

CopyAssignFails(d, rhs) ==
    IF rhs.size_ > d.capacity_ THEN VectorCopyFails(rhs)
    ELSE {NoFail}
         \cup {Throw("assign", i) : i \in {j \in 0..(d.size_ - 1) : j < rhs.size_}}
         \cup {Throw("elem", i) : i \in d.size_..(rhs.size_ - 1)}

ReserveFails(d, new_capacity) ==
    IF new_capacity <= d.capacity_ THEN {NoFail}
    ELSE {NoFail, BadAlloc}
         \cup (IF TransferThrows
               THEN {Throw("elem", i) : i \in 0..(d.size_ - 1)} ELSE {})

ResizeFails(d, new_size) ==
    IF new_size <= d.size_ THEN {NoFail}
    ELSE ReserveFails(d, new_size)
         \cup {Throw("ctor", i) : i \in d.size_..(new_size - 1)}

\* moves: whether the exploration lets the moves of the shifting branch raise
EmplaceFails(d, index, moves) ==
    IF d.size_ < d.capacity_
    THEN IF index = d.size_ THEN {NoFail, Throw("arg", 0)}
         ELSE {NoFail, Throw("arg", 0)}
              \cup (IF MoveThrows /\ moves
                    THEN {Throw("elem", d.size_ - 1), Throw("tmp", 0)}
                         \cup {Throw("assign", i) : i \in index..(d.size_ - 2)}
                    ELSE {})
    ELSE {NoFail, BadAlloc, Throw("arg", 0)}
         \cup (IF TransferThrows
               THEN {Throw("elem", i) : i \in 0..(d.size_ - 1)} ELSE {})

EraseFails(d, index) ==
    {NoFail} \cup (IF TransferThrows
                   THEN {Throw("assign", i) : i \in (index + 1)..(d.size_ - 1)} ELSE {})

EmplaceArgs(d) ==
    {[ref |-> FALSE, x |-> x] : x \in Values}
    \cup {[ref |-> TRUE, x |-> i] : i \in 0..(d.size_ - 1)}

\* --------------------------------------------------------------- the calls
\* The limits of one exploration: the largest capacity and size a call may
\* ask for, whether a call may raise at all, whether a move of T inside the
\* shifting branch of Emplace may raise, and whether the record of the last
\* call keeps the call's arguments.
Solo == [cap |-> MaxCap, size |-> MaxSize,
         raises |-> TRUE, moves |-> TRUE, detail |-> TRUE]
Pair == [cap |-> PairMaxCap, size |-> PairMaxSize,
         raises |-> TRUE, moves |-> FALSE, detail |-> FALSE]
PairOk == [cap |-> PairMaxCap, size |-> PairMaxSize,
           raises |-> FALSE, moves |-> FALSE, detail |-> FALSE]
Wide == [cap |-> WideMaxCap, size |-> WideMaxSize,
         raises |-> FALSE, moves |-> FALSE, detail |-> TRUE]
Push == [cap |-> PushMaxCap, size |-> PushMaxSize,
         raises |-> FALSE, moves |-> FALSE, detail |-> TRUE]

\* The exceptions of the set fails that the exploration lets a call see
Raised(lim, fails) == IF lim.raises THEN fails ELSE {NoFail}

\* The record of the last call: the member function, the vector it was
\* called on (v), the other vector (w), the size, capacity or index passed
\* (n), the arguments of Emplace (arg), the exception raised inside (f), how
\* the call ended (res), the number of elements whose memory the call
\* released without destroying them (lost), the iterator returned (ret) and
\* the branch of the operation the call entered (path).
\* An iterator is a block and an offset into it.
NoPos == [buf |-> NULL, off |-> 0]
Call(lim, op, v, w, n, arg, f, res) ==
    IF lim.detail
    THEN [op |-> op, v |-> v, w |-> w, n |-> n, arg |-> arg, f |-> f, res |-> res,
          lost |-> 0, ret |-> NoPos, path |-> ""]
    ELSE [op |-> op, v |-> v, w |-> w, n |-> 0, arg |-> NoArg, f |-> NoFail, res |-> res,
          lost |-> 0, ret |-> NoPos, path |-> ""]

\* The record of a call that returned the iterator it
Returning(lim, call, it) ==
    IF lim.detail /\ call.res = "ok" THEN [call EXCEPT !.ret = it] ELSE call

\* The record of a call that entered the branch path
Taking(lim, call, path) ==
    IF lim.detail THEN [call EXCEPT !.path = path] ELSE call

\* The branch Reserve enters: the early return, or the new block
ReservePath(d, new_capacity) ==
    IF new_capacity <= d.capacity_ THEN "return" ELSE "allocate"

\* The branch Resize enters: destroy the tail, construct new elements in
\* the block there is or in the block its Reserve allocates, or neither
ResizePath(d, new_size) ==
    IF new_size < d.size_ THEN "destroy"
    ELSE IF new_size > d.size_
         THEN IF new_size <= d.capacity_ THEN "construct" ELSE "allocate"
         ELSE "same"

\* The branch Emplace enters: construct at the end, shift within the block,
\* or move everything to a new block
EmplacePath(d, index) ==
    IF d.size_ < d.capacity_
    THEN IF index = d.size_ THEN "end" ELSE "shift"
    ELSE "allocate"

\* What Emplace returns, called on d and leaving r: end() - 1 after size_++
\* in the branch that constructs at the end, begin() + index in the others
EmplaceReturns(d, r, index) ==
    IF d.size_ < d.capacity_ /\ index = d.size_
    THEN [buf |-> r.d.buffer_, off |-> r.d.size_ - 1]
    ELSE [buf |-> r.d.buffer_, off |-> index]

\* What Erase returns: begin() + index
EraseReturns(r, index) == [buf |-> r.d.buffer_, off |-> index]

\* The elements left constructed in released memory: they are counted for
\* the call that released it, and the memory is gone.
Lost(h) ==
    Cardinality(UNION {{<<b, j>> : j \in Constructed(h, b)} :
                          b \in {c \in Blocks : h[c].status = "free"}})
Forget(h) == [b \in Blocks |-> IF h[b].status = "free" THEN FreeBlock ELSE h[b]]

\* One call on vector v
Does(v, r, call) ==
    /\ heap' = Forget(r.h)
    /\ vec' = [vec EXCEPT ![v] = r.d]
    /\ last' = [call EXCEPT !.lost = Lost(r.h)]
    /\ UNCHANGED nothrow_move

\* One call on vector v with the other vector w
Does2(v, w, r, call) ==
    /\ heap' = Forget(r.h)
    /\ vec' = [vec EXCEPT ![v] = r.d, ![w] = r.o]
    /\ last' = [call EXCEPT !.lost = Lost(r.h)]
    /\ UNCHANGED nothrow_move

DoDefaultCtor(v, lim) ==
    /\ ~vec[v].alive
    /\ Does(v, Ret(heap, VectorDefault, "ok"),
            Call(lim, "Vector", v, v, 0, NoArg, NoFail, "ok"))

DoSizeCtor(v, lim) ==
    /\ ~vec[v].alive
    /\ \E size \in 1..lim.size : \E f \in Raised(lim, VectorNFails(size)) :
         LET r == VectorN(heap, size, f)
         IN  Does(v, r, Call(lim, "VectorN", v, v, size, NoArg, f, r.res))

DoCopyCtor(v, lim) ==
    /\ ~vec[v].alive
    /\ \E w \in Vecs \ {v} :
         /\ vec[w].alive
         /\ \E f \in Raised(lim, VectorCopyFails(vec[w])) :
              LET r == VectorCopy(heap, vec[w], f)
              IN  Does(v, r, Call(lim, "VectorCopy", v, w, 0, NoArg, f, r.res))

DoMoveCtor(v, lim) ==
    /\ ~vec[v].alive
    /\ \E w \in Vecs \ {v} :
         /\ vec[w].alive
         /\ Does2(v, w, VectorMove(heap, vec[w]),
                  Call(lim, "VectorMove", v, w, 0, NoArg, NoFail, "ok"))

DoDtor(v, lim) ==
    /\ vec[v].alive
    /\ Does(v, Ret(VectorDtor(heap, vec[v]), Dead, "ok"),
            Call(lim, "Dtor", v, v, 0, NoArg, NoFail, "ok"))

DoCopyAssign(v, lim) ==
    /\ vec[v].alive
    /\ \E w \in Vecs :
         /\ vec[w].alive
         /\ IF w = v
            THEN Does(v, Ret(heap, vec[v], "ok"),
                      Call(lim, "CopyAssign", v, v, 0, NoArg, NoFail, "ok"))
            ELSE \E f \in Raised(lim, CopyAssignFails(vec[v], vec[w])) :
                   LET r == CopyAssign(heap, vec[v], vec[w], f)
                   IN  Does2(v, w, r, Call(lim, "CopyAssign", v, w, 0, NoArg, f, r.res))

DoMoveAssign(v, lim) ==
    /\ vec[v].alive
    /\ \E w \in Vecs :
         /\ vec[w].alive
         /\ IF w = v
            THEN Does(v, Ret(heap, vec[v], "ok"),
                      Call(lim, "MoveAssign", v, v, 0, NoArg, NoFail, "ok"))
            ELSE Does2(v, w, MoveAssign(heap, vec[v], vec[w]),
                       Call(lim, "MoveAssign", v, w, 0, NoArg, NoFail, "ok"))

DoSwap(v, lim) ==
    /\ vec[v].alive
    /\ \E w \in Vecs :
         /\ vec[w].alive
         /\ IF w = v
            THEN Does(v, Ret(heap, vec[v], "ok"),
                      Call(lim, "Swap", v, v, 0, NoArg, NoFail, "ok"))
            ELSE Does2(v, w, Swap(heap, vec[v], vec[w]),
                       Call(lim, "Swap", v, w, 0, NoArg, NoFail, "ok"))

DoReserve(v, lim) ==
    /\ vec[v].alive
    /\ \E new_capacity \in 0..lim.cap : \E f \in Raised(lim, ReserveFails(vec[v], new_capacity)) :
         LET r == Reserve(heap, vec[v], new_capacity, f)
         IN  Does(v, r, Taking(lim, Call(lim, "Reserve", v, v, new_capacity, NoArg, f, r.res),
                               ReservePath(vec[v], new_capacity)))

DoResize(v, lim) ==
    /\ vec[v].alive
    /\ \E new_size \in 0..lim.size : \E f \in Raised(lim, ResizeFails(vec[v], new_size)) :
         LET r == Resize(heap, vec[v], new_size, f)
         IN  Does(v, r, Taking(lim, Call(lim, "Resize", v, v, new_size, NoArg, f, r.res),
                               ResizePath(vec[v], new_size)))

DoPopBack(v, lim) ==
    /\ vec[v].alive
    /\ vec[v].size_ > 0
    /\ Does(v, PopBack(heap, vec[v]),
            Call(lim, "PopBack", v, v, 0, NoArg, NoFail, "ok"))

\* Insert and Emplace at any position; PushBack and EmplaceBack are the
\* case index = size_.
DoEmplace(v, lim) ==
    /\ vec[v].alive
    /\ vec[v].size_ < lim.size
    /\ vec[v].size_ < vec[v].capacity_ \/ GrownCapacity(vec[v].capacity_) <= lim.cap
    /\ \E index \in 0..vec[v].size_ : \E arg \in EmplaceArgs(vec[v]) :
         \E f \in Raised(lim, EmplaceFails(vec[v], index, lim.moves)) :
           LET r == Emplace(heap, vec[v], index, arg, f)
           IN  Does(v, r, Taking(lim, Returning(lim, Call(lim, "Emplace", v, v, index, arg, f, r.res),
                                                 EmplaceReturns(vec[v], r, index)),
                                 EmplacePath(vec[v], index)))

\* void PushBack(const T &value): EmplaceBack(value), that is
\* Emplace(end(), value); nothing is returned.
DoPushBack(v, lim) ==
    /\ vec[v].alive
    /\ vec[v].size_ < lim.size
    /\ vec[v].size_ < vec[v].capacity_ \/ GrownCapacity(vec[v].capacity_) <= lim.cap
    /\ \E arg \in EmplaceArgs(vec[v]) :
         \E f \in Raised(lim, EmplaceFails(vec[v], vec[v].size_, lim.moves)) :
           LET r == Emplace(heap, vec[v], vec[v].size_, arg, f)
           IN  Does(v, r, Taking(lim, Call(lim, "PushBack", v, v, vec[v].size_, arg, f, r.res),
                                 EmplacePath(vec[v], vec[v].size_)))

DoErase(v, lim) ==
    /\ vec[v].alive
    /\ \E index \in 0..(vec[v].size_ - 1) : \E f \in Raised(lim, EraseFails(vec[v], index)) :
         LET r == Erase(heap, vec[v], index, f)
         IN  Does(v, r, Returning(lim, Call(lim, "Erase", v, v, index, NoArg, f, r.res),
                                  EraseReturns(r, index)))

\* Two calls of a caller, neither raising: Insert at begin() + index, then
\* Erase at begin() + index of the vector the Insert left.
DoInsertThenErase(v, lim) ==
    /\ vec[v].alive
    /\ vec[v].size_ < lim.size
    /\ vec[v].size_ < vec[v].capacity_ \/ GrownCapacity(vec[v].capacity_) <= lim.cap
    /\ \E index \in 0..vec[v].size_ : \E arg \in EmplaceArgs(vec[v]) :
         LET inserted == Emplace(heap, vec[v], index, arg, NoFail)
             r == Erase(Forget(inserted.h), inserted.d, index, NoFail)
         IN  Does(v, r, Taking(lim, Call(lim, "InsertErase", v, v, index, arg, NoFail, r.res),
                               EmplacePath(vec[v], index)))

Init ==
    /\ heap = [b \in Blocks |-> FreeBlock]
    /\ vec = [v \in Vecs |-> Dead]
    /\ nothrow_move \in BOOLEAN
    /\ last = Call(Pair, "none", "a", "a", 0, NoArg, NoFail, "ok")

\* Two vectors, every member function; a call may raise std::bad_alloc and
\* the exceptions of T's constructors and copy operations.
Next ==
    \E v \in Vecs :
        \/ DoDefaultCtor(v, Pair)
        \/ DoSizeCtor(v, Pair)
        \/ DoCopyCtor(v, Pair)
        \/ DoMoveCtor(v, Pair)
        \/ DoDtor(v, Pair)
        \/ DoCopyAssign(v, Pair)
        \/ DoMoveAssign(v, Pair)
        \/ DoSwap(v, Pair)
        \/ DoReserve(v, Pair)
        \/ DoResize(v, Pair)
        \/ DoPopBack(v, Pair)
        \/ DoEmplace(v, Pair)
        \/ DoErase(v, Pair)

Spec == Init /\ [][Next]_vars

\* Two vectors, every call runs to completion: no call raises.
NextOk ==
    \E v \in Vecs :
        \/ DoDefaultCtor(v, PairOk)
        \/ DoSizeCtor(v, PairOk)
        \/ DoCopyCtor(v, PairOk)
        \/ DoMoveCtor(v, PairOk)
        \/ DoDtor(v, PairOk)
        \/ DoCopyAssign(v, PairOk)
        \/ DoMoveAssign(v, PairOk)
        \/ DoSwap(v, PairOk)
        \/ DoReserve(v, PairOk)
        \/ DoResize(v, PairOk)
        \/ DoPopBack(v, PairOk)
        \/ DoEmplace(v, PairOk)
        \/ DoErase(v, PairOk)

SpecOk == Init /\ [][NextOk]_vars

\* One vector alone, within wider limits, every exception.
NextSolo ==
    \/ DoDefaultCtor("a", Solo)
    \/ DoSizeCtor("a", Solo)
    \/ DoDtor("a", Solo)
    \/ DoReserve("a", Solo)
    \/ DoResize("a", Solo)
    \/ DoPopBack("a", Solo)
    \/ DoEmplace("a", Solo)
    \/ DoErase("a", Solo)

SpecSolo == Init /\ [][NextSolo]_vars

\* One vector alone, within wider limits, no call raises.
NextWide ==
    \/ DoDefaultCtor("a", Wide)
    \/ DoSizeCtor("a", Wide)
    \/ DoDtor("a", Wide)
    \/ DoReserve("a", Wide)
    \/ DoResize("a", Wide)
    \/ DoPopBack("a", Wide)
    \/ DoEmplace("a", Wide)
    \/ DoPushBack("a", Wide)
    \/ DoErase("a", Wide)
    \/ DoInsertThenErase("a", Wide)

SpecWide == Init /\ [][NextWide]_vars

\* One vector, default-constructed and then only pushed to.
NextPush ==
    \/ DoDefaultCtor("a", Push)
    \/ DoPushBack("a", Push)

SpecPush == Init /\ [][NextPush]_vars

\* ------------------------------------------------------------ observations
\* The elements operator[] gives for the indices 0..size_-1
ElemsOf(h, d) == [j \in 0..(d.size_ - 1) |-> h[d.buffer_].slots[j]]
\* The slots of the block a vector owns (none for a null handle)
BlockOf(h, d) == IF d.buffer_ = NULL THEN RawSlots(0) ELSE h[d.buffer_].slots
\* T is transferred by copy: not nothrow-movable, and copyable
Duplicating == ~is_nothrow_move_constructible_v /\ is_copy_constructible_v

\* ------------------------------------------------------------------- claims
\* C1: after any sequence of calls that all ran to completion, every live
\* vector has 0 <= size <= capacity, its block has exactly capacity slots,
\* the slots [0, size) hold constructed elements and the slots
\* [size, capacity) are raw.
C1_LiveRangeInvariant ==
    \A v \in Vecs :
        vec[v].alive =>
            /\ 0 <= vec[v].size_
            /\ vec[v].size_ <= vec[v].capacity_
            /\ DOMAIN BlockOf(heap, vec[v]) = 0..(vec[v].capacity_ - 1)
            /\ \A j \in 0..(vec[v].capacity_ - 1) :
                   (j < vec[v].size_) <=> (BlockOf(heap, vec[v])[j] # RAW)

\* C1 witness: an Erase has left a vector with live elements and raw slots
\* behind them.
C1_Witness ==
    /\ last.op = "Erase"
    /\ vec[last.v].size_ > 0
    /\ vec[last.v].size_ < vec[last.v].capacity_

\* C2: a Reserve that grows and fails in the copy of an element leaves the
\* vector (size, capacity, block) and the contents of its block as they were.
C2_ReserveCopyFailureKeepsState ==
    [][(last'.op = "Reserve" /\ last'.res = "throw" /\ Duplicating)
          => /\ vec'[last'.v] = vec[last'.v]
             /\ BlockOf(heap', vec'[last'.v]) = BlockOf(heap, vec[last'.v])]_vars

\* C2 witness: the copy of the second of at least two elements failed in a
\* growing Reserve.
C2_Witness ==
    /\ last.op = "Reserve"
    /\ last.res = "throw"
    /\ last.f = Throw("elem", 1)
    /\ Duplicating
    /\ vec[last.v].size_ >= 2
    /\ last.n > vec[last.v].capacity_

\* C3: an Emplace on a full vector that fails in the copy of an existing
\* element, of the prefix or of the suffix, leaves the vector (size, capacity,
\* block) and the contents of its block as they were.
C3_EmplaceCopyFailureKeepsState ==
    [][(/\ last'.op = "Emplace"
        /\ last'.res = "throw"
        /\ last'.f.k = "elem"
        /\ vec[last'.v].size_ = vec[last'.v].capacity_
        /\ Duplicating)
          => /\ vec'[last'.v] = vec[last'.v]
             /\ BlockOf(heap', vec'[last'.v]) = BlockOf(heap, vec[last'.v])]_vars

\* C3 witness: on a full vector of two elements, inserting at index 1, the
\* prefix was copied and the copy of the suffix failed.
C3_Witness ==
    /\ last.op = "Emplace"
    /\ last.res = "throw"
    /\ last.f = Throw("elem", 1)
    /\ last.n = 1
    /\ Duplicating
    /\ vec[last.v].size_ = 2
    /\ vec[last.v].capacity_ = 2

\* C4: a Reserve that grows, an Emplace on a full vector or a copy assignment
\* from a longer source that ends in std::bad_alloc has changed nothing: no
\* vector and no block.
C4_BadAllocChangesNothing ==
    [][(last'.res = "bad_alloc" /\ last'.op \in {"Reserve", "Emplace", "CopyAssign"})
          => /\ vec' = vec
             /\ heap' = heap]_vars

\* C4 witness: the allocation failed in a copy assignment to a vector with
\* elements from a source longer than its capacity.
C4_Witness ==
    /\ last.op = "CopyAssign"
    /\ last.res = "bad_alloc"
    /\ vec[last.v].size_ > 0
    /\ vec[last.w].size_ > vec[last.v].capacity_

\* C5: a copy assignment a = b with b.size > a.capacity that fails, in the
\* allocation or in the copy of an element, leaves a and b (size, capacity,
\* block, contents of the block) as they were.
C5_CopyAssignRebuildIsStrong ==
    [][(/\ last'.op = "CopyAssign"
        /\ last'.res # "ok"
        /\ vec[last'.w].size_ > vec[last'.v].capacity_)
          => /\ vec' = vec
             /\ BlockOf(heap', vec'[last'.v]) = BlockOf(heap, vec[last'.v])
             /\ BlockOf(heap', vec'[last'.w]) = BlockOf(heap, vec[last'.w])]_vars

\* C5 witness: the copy of an element of b failed while a, with elements of
\* its own, was too small for b.
C5_Witness ==
    /\ last.op = "CopyAssign"
    /\ last.res = "throw"
    /\ vec[last.v].size_ > 0
    /\ vec[last.w].size_ > vec[last.v].capacity_

\* C6 as stated: every move, the move construction from b and the move
\* assignment a = std::move(b) with a distinct from b, leaves b with size 0
\* and capacity 0 and gives the destination b's prior size, capacity and
\* elements.
C6_EveryMoveEmptiesSource ==
    [][(last'.op \in {"VectorMove", "MoveAssign"} /\ last'.v # last'.w)
          => /\ vec'[last'.w].size_ = 0
             /\ vec'[last'.w].capacity_ = 0
             /\ vec'[last'.v].size_ = vec[last'.w].size_
             /\ vec'[last'.v].capacity_ = vec[last'.w].capacity_
             /\ ElemsOf(heap', vec'[last'.v]) = ElemsOf(heap, vec[last'.w])]_vars

\* C6 amended: a move gives the destination b's prior size, capacity and
\* elements; the move construction leaves b with size 0 and capacity 0, and
\* the move assignment a = std::move(b) with a distinct from b leaves b with
\* a's prior size, capacity and elements.
C6_MoveTransfersAndAssignExchanges ==
    [][(last'.op \in {"VectorMove", "MoveAssign"} /\ last'.v # last'.w)
          => /\ vec'[last'.v].size_ = vec[last'.w].size_
             /\ vec'[last'.v].capacity_ = vec[last'.w].capacity_
             /\ ElemsOf(heap', vec'[last'.v]) = ElemsOf(heap, vec[last'.w])
             /\ last'.op = "VectorMove"
                    => /\ vec'[last'.w].size_ = 0
                       /\ vec'[last'.w].capacity_ = 0
             /\ last'.op = "MoveAssign"
                    => /\ vec'[last'.w].size_ = vec[last'.v].size_
                       /\ vec'[last'.w].capacity_ = vec[last'.v].capacity_
                       /\ ElemsOf(heap', vec'[last'.w]) = ElemsOf(heap, vec[last'.v])]_vars

\* C6 witness: after a move assignment between two vectors the source holds
\* elements (those the destination had) and the destination holds elements.
C6_Witness ==
    /\ last.op = "MoveAssign"
    /\ last.v # last.w
    /\ vec[last.w].size_ > 0
    /\ vec[last.v].size_ > 0
    /\ vec[last.v].capacity_ # vec[last.w].capacity_

\* C7: the move construction from b allocates, constructs and destroys
\* nothing (the heap is as it was); the new vector has b's block, capacity
\* and size, and b has a null handle, capacity 0 and size 0.
C7_MoveCtorTransfersBlock ==
    [][(last'.op = "VectorMove")
          => /\ heap' = heap
             /\ vec'[last'.v].alive
             /\ vec'[last'.v].buffer_ = vec[last'.w].buffer_
             /\ vec'[last'.v].capacity_ = vec[last'.w].capacity_
             /\ vec'[last'.v].size_ = vec[last'.w].size_
             /\ vec'[last'.w].alive
             /\ vec'[last'.w].buffer_ = NULL
             /\ vec'[last'.w].capacity_ = 0
             /\ vec'[last'.w].size_ = 0]_vars

\* C7 witness: a vector was move-constructed from one with elements and
\* spare capacity.
C7_Witness ==
    /\ last.op = "VectorMove"
    /\ vec[last.v].size_ > 0
    /\ vec[last.v].capacity_ > vec[last.v].size_
    /\ vec[last.w].buffer_ = NULL

\* The blocks that are allocated, and the blocks the live vectors own
AllocatedBlocks == {b \in Blocks : heap[b].status = "allocated"}
OwnedBlocks == {vec[v].buffer_ : v \in {u \in Vecs : vec[u].alive}} \ {NULL}

\* C8: no block has two owners, no block is released twice, every allocated
\* block has an owner and every owned block is allocated; so once every
\* vector is destroyed no block is allocated.
C8_ExclusiveOwnership ==
    /\ \A v \in Vecs : \A w \in Vecs \ {v} :
           (vec[v].alive /\ vec[w].alive /\ vec[v].buffer_ # NULL)
               => vec[v].buffer_ # vec[w].buffer_
    /\ \A b \in Blocks : heap[b].status # "corrupt"
    /\ AllocatedBlocks = OwnedBlocks
    /\ (\A v \in Vecs : ~vec[v].alive) => AllocatedBlocks = {}

\* C8 witness: every vector has been destroyed after a call was aborted and
\* others allocated: the last destructor released the last block.
C8_Witness ==
    /\ last.op = "Dtor"
    /\ \A v \in Vecs : ~vec[v].alive

\* C9: the copy construction from a source of size s gives size s, capacity
\* s, the source's elements in order and a block of its own, and leaves the
\* source as it was; and no call changes a vector it was not called on or
\* with, nor the block of that vector.
C9_CopyIsDeep ==
    [][/\ (last'.op = "VectorCopy" /\ last'.res = "ok")
             => /\ vec'[last'.v].size_ = vec[last'.w].size_
                /\ vec'[last'.v].capacity_ = vec[last'.w].size_
                /\ ElemsOf(heap', vec'[last'.v]) = ElemsOf(heap, vec[last'.w])
                /\ vec'[last'.v].buffer_ # NULL
                       => vec'[last'.v].buffer_ # vec'[last'.w].buffer_
                /\ vec'[last'.w] = vec[last'.w]
                /\ BlockOf(heap', vec'[last'.w]) = BlockOf(heap, vec[last'.w])
       /\ \A u \in Vecs \ {last'.v, last'.w} :
              /\ vec'[u] = vec[u]
              /\ BlockOf(heap', vec'[u]) = BlockOf(heap, vec[u])]_vars

\* C9 witness: a vector was copy-constructed from a source with elements and
\* spare capacity.
C9_Witness ==
    /\ last.op = "VectorCopy"
    /\ last.res = "ok"
    /\ vec[last.w].size_ > 0
    /\ vec[last.w].capacity_ > vec[last.w].size_

\* C10: a successful copy assignment a = b gives a the elements of b and
\* leaves b as it was; when b.size > a's capacity a's capacity becomes
\* b.size, otherwise a keeps its block and capacity; the slots of a from
\* b.size on are raw and those before hold b's elements; a = a changes
\* nothing.
C10_CopyAssign ==
    [][(last'.op = "CopyAssign" /\ last'.res = "ok")
          => IF last'.v = last'.w
             THEN vec' = vec /\ heap' = heap
             ELSE /\ vec'[last'.v].size_ = vec[last'.w].size_
                  /\ ElemsOf(heap', vec'[last'.v]) = ElemsOf(heap, vec[last'.w])
                  /\ vec'[last'.w] = vec[last'.w]
                  /\ BlockOf(heap', vec'[last'.w]) = BlockOf(heap, vec[last'.w])
                  /\ IF vec[last'.w].size_ > vec[last'.v].capacity_
                     THEN vec'[last'.v].capacity_ = vec[last'.w].size_
                     ELSE /\ vec'[last'.v].capacity_ = vec[last'.v].capacity_
                          /\ vec'[last'.v].buffer_ = vec[last'.v].buffer_
                  /\ \A j \in 0..(vec'[last'.v].capacity_ - 1) :
                         BlockOf(heap', vec'[last'.v])[j] =
                             IF j < vec[last'.w].size_
                             THEN BlockOf(heap, vec[last'.w])[j] ELSE RAW]_vars

\* C10 witness: a copy assignment between two vectors left the destination
\* with elements and spare capacity: it reused its block.
C10_Witness ==
    /\ last.op = "CopyAssign"
    /\ last.res = "ok"
    /\ last.v # last.w
    /\ vec[last.v].size_ > 0
    /\ vec[last.v].capacity_ > vec[last.v].size_

(***************************************************************************)
(* C11..C19: what the calls that complete do to one vector                 *)
(***************************************************************************)

\* C11: on a vector that starts empty and is only pushed to, every PushBack
\* that completes makes the size one more, keeps the elements there were in
\* their places and puts the pushed value after them, and leaves as capacity
\* the smallest power of two that is at least the new size.
C11_PushBackFromEmpty ==
    [][(last'.op = "PushBack" /\ last'.res = "ok")
          => LET d == vec[last'.v]
                 e == vec'[last'.v]
             IN  /\ e.size_ = d.size_ + 1
                 /\ ElemsOf(heap', e) =
                        [j \in 0..d.size_ |->
                            IF j < d.size_ THEN ElemsOf(heap, d)[j]
                            ELSE ArgValue(heap, d, last'.arg)]
                 /\ \E i \in 0..PushMaxSize :
                        /\ e.capacity_ = 2^i
                        /\ e.size_ <= 2^i
                        /\ i = 0 \/ 2^(i - 1) < e.size_]_vars

\* C11 witness: the fifth push has grown the capacity from 4 to 8, and the
\* values pushed were not all the same.
C11_Witness ==
    /\ last.op = "PushBack"
    /\ last.res = "ok"
    /\ vec[last.v].size_ = 5
    /\ vec[last.v].capacity_ = 8
    /\ ElemsOf(heap, vec[last.v])[0] # ElemsOf(heap, vec[last.v])[4]
    /\ ElemsOf(heap, vec[last.v])[1] # ElemsOf(heap, vec[last.v])[2]

\* C12: an Emplace or PushBack that completes changes the capacity exactly
\* when size was equal to capacity before the call, and then to twice the
\* capacity, or to 1 from 0; a Reserve(n) or Resize(n) that completes with n
\* above the capacity leaves the capacity equal to n.
C12_CapacityGrowth ==
    [][last'.res = "ok"
          => LET d == vec[last'.v]
                 e == vec'[last'.v]
             IN  /\ last'.op \in {"Emplace", "PushBack"}
                      => /\ (e.capacity_ # d.capacity_) <=> (d.size_ = d.capacity_)
                         /\ d.size_ = d.capacity_
                              => e.capacity_ = IF 2 * d.capacity_ > 1
                                               THEN 2 * d.capacity_ ELSE 1
                 /\ (last'.op \in {"Reserve", "Resize"} /\ last'.n > d.capacity_)
                      => e.capacity_ = last'.n]_vars

\* C12 witness: an insertion in the middle of a full vector of capacity 3
\* left it with capacity 6.
C12_Witness ==
    /\ last.op = "Emplace"
    /\ last.res = "ok"
    /\ last.path = "allocate"
    /\ last.n = 1
    /\ vec[last.v].size_ = 4
    /\ vec[last.v].capacity_ = 6

\* C13: an Emplace (Insert) at offset k that completes makes the size one
\* more, leaves the elements before k in place, the value at k and the
\* elements from k on one slot later, and returns begin() + k of the vector
\* it leaves, where the value is.
C13_InsertPlacesValue ==
    [][(last'.op = "Emplace" /\ last'.res = "ok")
          => LET d == vec[last'.v]
                 e == vec'[last'.v]
                 k == last'.n
                 v == ArgValue(heap, d, last'.arg)
             IN  /\ e.size_ = d.size_ + 1
                 /\ ElemsOf(heap', e) =
                        [j \in 0..d.size_ |->
                            IF j < k THEN ElemsOf(heap, d)[j]
                            ELSE IF j = k THEN v
                            ELSE ElemsOf(heap, d)[j - 1]]
                 /\ last'.ret = [buf |-> e.buffer_, off |-> k]
                 /\ heap'[last'.ret.buf].slots[last'.ret.off] = v]_vars

\* C13 witness: an insertion at the front of three elements, with room, has
\* shifted them: the value is first and the elements after it differ.
C13_Witness ==
    /\ last.op = "Emplace"
    /\ last.res = "ok"
    /\ last.path = "shift"
    /\ last.n = 0
    /\ last.ret.off = 0
    /\ vec[last.v].size_ = 4
    /\ ~last.arg.ref
    /\ ElemsOf(heap, vec[last.v])[0] = last.arg.x
    /\ ElemsOf(heap, vec[last.v])[1] # ElemsOf(heap, vec[last.v])[2]

\* C14: an Emplace (Insert) that completes and whose argument refers to an
\* element of the vector itself leaves the sequence that the insertion at
\* the same offset of a separate copy of that element's value leaves.
C14_InsertOwnElement ==
    [][(last'.op = "Emplace" /\ last'.res = "ok" /\ last'.arg.ref)
          => LET d == vec[last'.v]
                 copy == [ref |-> FALSE, x |-> ElemsOf(heap, d)[last'.arg.x]]
                 r == Emplace(heap, d, last'.n, copy, NoFail)
             IN  /\ vec'[last'.v].size_ = r.d.size_
                 /\ ElemsOf(heap', vec'[last'.v]) = ElemsOf(r.h, r.d)]_vars

\* C14 witness: the element referred to was after the offset and has been
\* shifted within the block; the value inserted is the one it had, which
\* is not the value now at its old index.
C14_Witness ==
    /\ last.op = "Emplace"
    /\ last.res = "ok"
    /\ last.path = "shift"
    /\ last.arg.ref
    /\ last.arg.x > last.n
    /\ ElemsOf(heap, vec[last.v])[last.n] = ElemsOf(heap, vec[last.v])[last.arg.x + 1]
    /\ ElemsOf(heap, vec[last.v])[last.n] # ElemsOf(heap, vec[last.v])[last.arg.x]

\* C15: an Insert at offset k followed by an Erase at offset k of the vector
\* it left, both completing, leaves the vector with the size and the
\* sequence of elements it had before the Insert.
C15_InsertThenEraseRestores ==
    [][(last'.op = "InsertErase" /\ last'.res = "ok")
          => /\ vec'[last'.v].size_ = vec[last'.v].size_
             /\ ElemsOf(heap', vec'[last'.v]) = ElemsOf(heap, vec[last'.v])]_vars

\* C15 witness: the Insert was in the middle of a full vector and
\* reallocated (the capacity left is above the size), between two elements
\* that differ.
C15_Witness ==
    /\ last.op = "InsertErase"
    /\ last.res = "ok"
    /\ last.path = "allocate"
    /\ last.n = 1
    /\ vec[last.v].size_ = 3
    /\ vec[last.v].capacity_ = 6
    /\ ElemsOf(heap, vec[last.v])[0] # ElemsOf(heap, vec[last.v])[1]
    /\ ElemsOf(heap, vec[last.v])[1] # ElemsOf(heap, vec[last.v])[2]

\* C16: an Erase at offset k that completes makes the size one less, leaves
\* the elements before k in place and the elements after k one slot earlier,
\* keeps the block and the capacity, leaves the last slot that was
\* constructed raw, and returns begin() + k: the position of the element
\* that followed, or end() when the last element was erased.
C16_EraseRemovesElement ==
    [][(last'.op = "Erase" /\ last'.res = "ok")
          => LET d == vec[last'.v]
                 e == vec'[last'.v]
                 k == last'.n
             IN  /\ e.size_ = d.size_ - 1
                 /\ ElemsOf(heap', e) =
                        [j \in 0..(d.size_ - 2) |->
                            IF j < k THEN ElemsOf(heap, d)[j] ELSE ElemsOf(heap, d)[j + 1]]
                 /\ e.capacity_ = d.capacity_
                 /\ e.buffer_ = d.buffer_
                 /\ \A j \in (d.size_ - 1)..(d.capacity_ - 1) : BlockOf(heap', e)[j] = RAW
                 /\ last'.ret = [buf |-> e.buffer_, off |-> k]
                 /\ IF k = d.size_ - 1
                    THEN last'.ret.off = e.size_
                    ELSE heap'[last'.ret.buf].slots[last'.ret.off] = ElemsOf(heap, d)[k + 1]]_vars

\* C16 witness: under the copy-assigning policy the first of three elements
\* was erased, and the two that are left differ.
C16_Witness ==
    /\ last.op = "Erase"
    /\ last.res = "ok"
    /\ Duplicating
    /\ last.n = 0
    /\ last.ret.off = 0
    /\ vec[last.v].size_ = 2
    /\ ElemsOf(heap, vec[last.v])[0] # ElemsOf(heap, vec[last.v])[1]
    /\ BlockOf(heap, vec[last.v])[2] = RAW

\* C17: a Reserve(n) that completes with n above the capacity leaves the
\* capacity equal to n, the size and every element (value and index) as
\* they were, in a block that is not the old one; the old block is released
\* and no element of it is left constructed.
C17_ReserveGrows ==
    [][(last'.op = "Reserve" /\ last'.res = "ok" /\ last'.n > vec[last'.v].capacity_)
          => LET d == vec[last'.v]
                 e == vec'[last'.v]
             IN  /\ e.capacity_ = last'.n
                 /\ e.size_ = d.size_
                 /\ ElemsOf(heap', e) = ElemsOf(heap, d)
                 /\ e.buffer_ # NULL
                 /\ e.buffer_ # d.buffer_
                 /\ heap'[e.buffer_].status = "allocated"
                 /\ \A j \in d.size_..(e.capacity_ - 1) : BlockOf(heap', e)[j] = RAW
                 /\ d.buffer_ # NULL => heap'[d.buffer_].status = "free"
                 /\ last'.lost = 0]_vars

\* C17 witness: under the duplicating policy a Reserve(5) moved a vector of
\* three elements, not all equal, out of a smaller block.
C17_Witness ==
    /\ last.op = "Reserve"
    /\ last.res = "ok"
    /\ last.path = "allocate"
    /\ last.n = 5
    /\ Duplicating
    /\ vec[last.v].capacity_ = 5
    /\ vec[last.v].size_ = 3
    /\ ElemsOf(heap, vec[last.v])[0] # ElemsOf(heap, vec[last.v])[2]

\* C18: a Reserve(n) with n at most the capacity completes and changes
\* neither the vector (block, capacity, size) nor the heap (no block
\* allocated or released, no element constructed or destroyed); so a
\* Reserve(n) that follows a completed Reserve(n) changes nothing.
C18_ReserveWithinCapacityIsNoOp ==
    [][last'.op = "Reserve"
          => /\ last'.n <= vec[last'.v].capacity_
                  => /\ last'.res = "ok"
                     /\ vec' = vec
                     /\ heap' = heap
                     /\ last'.lost = 0
             /\ (last.op = "Reserve" /\ last.res = "ok" /\ last'.n = last.n)
                  => /\ last'.res = "ok"
                     /\ vec' = vec
                     /\ heap' = heap]_vars

\* C18 witness: a Reserve of exactly the capacity on a vector that has
\* elements took the early return.
C18_Witness ==
    /\ last.op = "Reserve"
    /\ last.res = "ok"
    /\ last.path = "return"
    /\ last.n = vec[last.v].capacity_
    /\ vec[last.v].size_ >= 2
    /\ heap[vec[last.v].buffer_].status = "allocated"

\* C19: a Resize(n) that completes on a vector of size s and capacity c
\* leaves, for n < s, the first n elements, size n, capacity c, the same
\* block and the slots from n on raw; for n > s, size n, the s elements in
\* place, default values in [s, n) and capacity the larger of c and n; for
\* n = s, everything as it was.  A Vector(n) that completes has size n,
\* capacity n and n default values.
C19_Resize ==
    [][last'.res = "ok"
          => LET d == vec[last'.v]
                 e == vec'[last'.v]
                 n == last'.n
             IN  /\ (last'.op = "Resize" /\ n < d.size_)
                      => /\ e.size_ = n
                         /\ ElemsOf(heap', e) = [j \in 0..(n - 1) |-> ElemsOf(heap, d)[j]]
                         /\ e.capacity_ = d.capacity_
                         /\ e.buffer_ = d.buffer_
                         /\ \A j \in n..(d.capacity_ - 1) : BlockOf(heap', e)[j] = RAW
                 /\ (last'.op = "Resize" /\ n > d.size_)
                      => /\ e.size_ = n
                         /\ ElemsOf(heap', e) =
                                [j \in 0..(n - 1) |->
                                    IF j < d.size_ THEN ElemsOf(heap, d)[j] ELSE DefaultValue]
                         /\ e.capacity_ = IF d.capacity_ > n THEN d.capacity_ ELSE n
                 /\ (last'.op = "Resize" /\ n = d.size_)
                      => /\ vec' = vec
                         /\ heap' = heap
                 /\ last'.op = "VectorN"
                      => /\ e.size_ = n
                         /\ e.capacity_ = n
                         /\ ElemsOf(heap', e) = [j \in 0..(n - 1) |-> DefaultValue]]_vars

\* C19 witness: a Resize(4) beyond the capacity kept an element that is not
\* the default value and added default values after it.
C19_Witness ==
    /\ last.op = "Resize"
    /\ last.res = "ok"
    /\ last.path = "allocate"
    /\ last.n = 4
    /\ vec[last.v].size_ = 4
    /\ vec[last.v].capacity_ = 4
    /\ ElemsOf(heap, vec[last.v])[1] # DefaultValue
    /\ ElemsOf(heap, vec[last.v])[3] = DefaultValue

(***************************************************************************)
(* C20: what a call that fails leaves constructed                          *)
(***************************************************************************)

\* C20: after a Reserve, Resize, Emplace or copy assignment that T's
\* construction, copy or move made fail, no element is left constructed in
\* a block the call released, and the slots [size_, capacity_) of the
\* vector's block are raw.
C20_FailureLeavesNothingConstructed ==
    (last.op \in {"Reserve", "Resize", "Emplace", "CopyAssign"} /\ last.res = "throw")
        => /\ last.lost = 0
           /\ \A j \in vec[last.v].size_..(vec[last.v].capacity_ - 1) :
                  BlockOf(heap, vec[last.v])[j] = RAW

====
